---- MODULE Spec2Model ----
(***************************************************************************)
(* Order lifecycle and payment reconciliation of the restaurant POS        *)
(* backend: the Express routes of routes/orders.ts, routes/payments.ts and *)
(* routes/kds.ts over the Prisma tables order, orderItem and payment.      *)
(*                                                                         *)
(* Every request is a task of the event loop.  The code between two awaits *)
(* runs atomically, so a handler is a sequence of steps, one per awaited   *)
(* database or processor call together with the synchronous code that      *)
(* follows it; steps of different requests interleave.                     *)
(*                                                                         *)
(* The SMS to the manager that follows the last write of POST /orders,     *)
(* POST /payments and PATCH /inventory/:id/stock is sent only when         *)
(* MANAGER_PHONE is set; it is unset except where the SMS is the subject.  *)
(*                                                                         *)
(* Money is counted in units of 1/10000 dollar, so that 8% of any amount   *)
(* of whole cents is an integer (15.99 is 159900).                         *)
(***************************************************************************)
EXTENDS Integers, Sequences, FiniteSets, TLC

\* ---------------------------------------------------------------- bounds
MaxOrders == 1
MaxPayments == 2
MaxInFlight == 2
MaxItems == 2
MaxStock == 6
MaxRunning == 2
MaxClients == 2

\* ------------------------------------------------------------- constants
None == 0

\* orders.ts:112  const tax = subtotal * 0.08
TaxPercent == 8

\* enum OrderStatus of @prisma/client, as listed in orders.ts:280-287
OrderStatus == {"PENDING", "CONFIRMED", "PREPARING", "READY", "COMPLETED", "CANCELLED"}

\* request bodies may carry any string as status
StatusInputs == OrderStatus \cup {"BOGUS"}

\* the menu table: item 1 and 2 are on sale, item 3 exists but is not
\* available; any other id resolves to nothing.  The rows of the seed have
\* no squareId
SeedMenu ==
  (1 :> [price |-> 159900, isAvailable |-> TRUE, deleted |-> FALSE, squareId |-> None]) @@
  (2 :> [price |-> 129900, isAvailable |-> TRUE, deleted |-> FALSE, squareId |-> None]) @@
  (3 :> [price |-> 89900, isAvailable |-> FALSE, deleted |-> FALSE, squareId |-> None])

\* entries of req.body.orderItems: good lines, a line for the unavailable
\* item 3, a line for the unknown item 4 and a line with quantity 0
OrderItemInputs ==
  { [menuItemId |-> 1, quantity |-> 1], [menuItemId |-> 1, quantity |-> 2],
    [menuItemId |-> 2, quantity |-> 1], [menuItemId |-> 3, quantity |-> 1],
    [menuItemId |-> 4, quantity |-> 1], [menuItemId |-> 1, quantity |-> 0] }

RECURSIVE SeqsUpTo(_, _)
SeqsUpTo(S, n) ==
  IF n = 0 THEN {<<>>}
  ELSE LET shorter == SeqsUpTo(S, n - 1)
       IN shorter \cup {Append(s, x) : s \in {t \in shorter : Len(t) = n - 1}, x \in S}

\* the orderItems arrays a client may post, up to MaxItems entries, listed
\* by menu item id (the totals do not depend on the order of the entries)
OrderItemsInputs ==
  {s \in SeqsUpTo(OrderItemInputs, MaxItems) :
     \A i \in 1..Len(s) : \A j \in 1..Len(s) : i < j => s[i].menuItemId <= s[j].menuItemId}

\* amounts a client may post to /payments and /payments/:id/refund
AmountInputs == {86400, 172700}

\* method, sourceId and idempotencyKey of a payment request
PaymentShapes ==
  { [method |-> "CASH", sourceId |-> FALSE, idempotencyKey |-> None],
    [method |-> "CARD", sourceId |-> TRUE, idempotencyKey |-> 1],
    [method |-> "CARD", sourceId |-> TRUE, idempotencyKey |-> None] }

Slots == 1..MaxInFlight

\* the tables menuItem, order (with its orderItems), payment and
\* inventoryItem; the requests being served and their headers; the
\* environment variables of the process; the table user; the Socket.IO
\* clients; the webhook deliveries being served; the scheduled tasks of the cron service,
\* the executions of their bodies under way and the last line it logged
VARIABLES menuItems, orders, payments, req, headers, env, users, sockets, inventoryItems, hooks,
          jobs, tasks, logged

vars == <<menuItems, orders, payments, req, headers, env, users, sockets, inventoryItems, hooks,
          jobs, tasks, logged>>

\* what the order and payment routes never touch
aux == <<headers, env, users, sockets, inventoryItems, hooks, jobs, tasks, logged>>

\* ---------------------------------------------------------------- helpers
RECURSIVE SumSeq(_, _)
SumSeq(f, n) == IF n = 0 THEN 0 ELSE f[n] + SumSeq(f, n - 1)

\* prisma.menuItem.findUnique({ where: { id } }) returned a row; a deleted
\* row keeps its place, as its id is never given to another row
MenuItemFound(menu, id) == id \in DOMAIN menu /\ ~menu[id].deleted

\* the loop of orders.ts:97-110: items whose menu item is not found are
\* skipped, the others get the current price of the menu item
RECURSIVE ProcessOrderItems(_, _)
ProcessOrderItems(menu, items) ==
  IF items = <<>> THEN <<>>
  ELSE LET item == Head(items)
           rest == ProcessOrderItems(menu, Tail(items))
       IN IF MenuItemFound(menu, item.menuItemId)
          THEN <<[menuItemId |-> item.menuItemId, quantity |-> item.quantity,
                  price |-> menu[item.menuItemId].price]>> \o rest
          ELSE rest

\* subtotal += Number(menuItem.price) * item.quantity
Subtotal(processed) ==
  SumSeq([i \in 1..Len(processed) |-> processed[i].price * processed[i].quantity],
         Len(processed))

\* const tax = subtotal * 0.08
Tax(subtotal) == (subtotal * TaxPercent) \div 100

\* a total that leaves the tax out
TotalWithoutTax(subtotal, tax) == subtotal

\* const total = subtotal + tax
Total(subtotal, tax) == subtotal + tax

\* the row written by prisma.order.create (orders.ts:112-147) for the
\* processed items; status takes the column default PENDING
OrderOf(processed) ==
  LET subtotal == Subtotal(processed)
      tax == Tax(subtotal)
  IN [status |-> "PENDING", subtotal |-> subtotal, tax |-> tax,
      total |-> Total(subtotal, tax), orderItems |-> processed,
      squareOrderId |-> FALSE]

\* the row written when the menu does not change between the lookups
NewOrder(menu, items) == OrderOf(ProcessOrderItems(menu, items))

\* prisma.payment.aggregate({ where: { orderId }, _sum: { amount: true } })
AmountPaid(pays, orderId) ==
  SumSeq([i \in 1..Len(pays) |-> IF pays[i].orderId = orderId THEN pays[i].amount ELSE 0],
         Len(pays))

OrderExists(ords, id) == id \in 1..Len(ords)
PaymentExists(pays, id) == id \in 1..Len(pays)

\* a request slot: the body and parameters of the request, the handler's
\* position and locals, and the response once sent
IdleReq ==
  [op |-> "idle", pc |-> "idle", orderId |-> None, paymentId |-> None,
   orderItems |-> <<>>, status |-> "", amount |-> 0, method |-> "",
   sourceId |-> FALSE, idempotencyKey |-> None, syncToSquare |-> FALSE,
   squareOrderId |-> FALSE, squareResult |-> FALSE, result |-> None,
   emitted |-> "", code |-> 0, returned |-> "", error |-> "",
   attempts |-> 0, failure |-> "", itemId |-> None, quantity |-> 0,
   operation |-> "", newStock |-> 0, inventoryData |-> <<>>,
   predictions |-> <<>>, console |-> "", channel |-> "", sms |-> "",
   email |-> None, role |-> "", price |-> "", available |-> "",
   looked |-> 0, processed |-> <<>>, recipients |-> {}, last |-> FALSE]

\* middleware/errorHandler: the status sent when a handler throws an error
\* that carries no status of its own
errorHandler == 500

InFlight(r) == req[r].pc \notin {"idle", "done"}

Respond(r, code) == [req[r] EXCEPT !.pc = "done", !.code = code]

\* every request carries the bearer token of a user whose role is STAFF
WithToken == [r \in Slots |-> [authorization |-> TRUE, role |-> "STAFF"]]

\* the user table after the seed: admin@restaurant.com, whose role is ADMIN
SeedUsers == <<[email |-> 1, role |-> "ADMIN"]>>

\* the inventory table: the Fresh Basil of the seed; any other id resolves
\* to nothing
SeedInventory == (1 :> [currentStock |-> 5, minStock |-> 2])

\* a webhook slot: the signature header, the content type and the text of
\* the delivery, the handler's position and locals (body, whether the
\* signature was accepted, whether JSON.parse returned, the event's type),
\* the line it logged and the response
IdleHook ==
  [pc |-> "idle", signature |-> "", contentType |-> "", payload |-> "",
   body |-> "", verified |-> FALSE, parsed |-> FALSE, type |-> "",
   logged |-> "", code |-> 0]

\* the names given to addJob by initializeJobs
JobNames == {"menu-sync", "inventory-sync", "low-stock-check", "daily-report",
             "log-cleanup", "ai-recommendations"}

\* nothing logged yet
NoLine == [job |-> "", level |-> ""]

\* the executions of a job's callback under way: those awaiting the body,
\* those whose body has thrown and those whose body has returned
NoTask == [body |-> 0, thrown |-> 0, returned |-> 0]

\* new CronService(): every job is scheduled and started, none is executing
InitCron ==
  /\ jobs = [j \in JobNames |-> TRUE]
  /\ tasks = [j \in JobNames |-> NoTask]
  /\ logged = NoLine

\* the displays that may connect
Clients == 1..MaxClients

\* no client has connected
NoClient == [c \in Clients |-> "disconnected"]

\* process.env without MANAGER_PHONE: no SMS is sent to the manager
NoManagerPhone == [MANAGER_PHONE |-> FALSE]

InitAux ==
  /\ headers = WithToken
  /\ env = NoManagerPhone
  /\ users = SeedUsers
  /\ sockets = NoClient
  /\ inventoryItems = SeedInventory
  /\ hooks = [r \in Slots |-> IdleHook]
  /\ InitCron

Init ==
  /\ menuItems = SeedMenu
  /\ orders = <<>>
  /\ payments = <<>>
  /\ req = [r \in Slots |-> IdleReq]
  /\ InitAux

\* ------------------------------------------------------------ POST /orders
\* process.env.SQUARE_LOCATION_ID is set in every shipped configuration
SquareLocationConfigured == TRUE

\* the sockets in the room 'kitchen'
Kitchen == {c \in Clients : sockets[c] = "joined"}

\* the handler ends with io.to('kitchen').emit(event, ...), which sends the
\* event to the sockets that are in the room, and the response
RespondEmit(q, event, code) ==
  [q EXCEPT !.pc = "done", !.emitted = event, !.recipients = Kitchen, !.code = code]

\* orders.ts:191-216: the broadcast of new-order, then for an online order
\* with a customer name the SMS to the manager, then the response
BroadcastNewOrder(q) ==
  IF q.channel = "ONLINE" /\ env.MANAGER_PHONE
  THEN [q EXCEPT !.pc = "sms", !.emitted = "new-order", !.recipients = Kitchen]
  ELSE RespondEmit(q, "new-order", 201)

\* orders.ts:82-147 and 191-216: the menu lookups and prisma.order.create;
\* without Square sync the handler goes on to broadcast and respond
CreateOrderFrom(r, inputs, channels) ==
  /\ req[r].pc = "idle"
  /\ Len(orders) < MaxOrders
  /\ \E items \in inputs, sync \in BOOLEAN, channel \in channels :
       LET id == Len(orders) + 1
           started == [IdleReq EXCEPT !.op = "CreateOrder", !.orderItems = items,
                                      !.syncToSquare = sync, !.result = id,
                                      !.channel = channel]
       IN /\ orders' = Append(orders, NewOrder(menuItems, items))
          /\ IF sync /\ SquareLocationConfigured
             THEN req' = [req EXCEPT ![r] = [started EXCEPT !.pc = "square"]]
             ELSE req' = [req EXCEPT ![r] = BroadcastNewOrder(started)]
  /\ UNCHANGED <<aux, menuItems, payments>>

\* the order of the payment flows: one item at 15.99
CommonOrderItems == {<<[menuItemId |-> 1, quantity |-> 1]>>}

\* an order taken at the counter: channel has its default
CreateOrder(r) == CreateOrderFrom(r, CommonOrderItems, {"IN_PERSON"})

\* any array of order items
CreateAnyOrder(r) == CreateOrderFrom(r, OrderItemsInputs, {"IN_PERSON"})

\* an order placed online or at the counter, with the customer's name
CreateOrderAnyChannel(r) == CreateOrderFrom(r, CommonOrderItems, {"IN_PERSON", "ONLINE"})

\* a handler that lets the failure of squareService.createOrder reach the
\* error handler
CreateOrderSquarePropagated(r) ==
  /\ req[r].op = "CreateOrder" /\ req[r].pc = "square"
  /\ \/ req' = [req EXCEPT ![r].pc = "saveSquareId", ![r].squareResult = TRUE]
     \/ req' = [req EXCEPT ![r] = Respond(r, errorHandler)]
  /\ UNCHANGED <<aux, menuItems, orders, payments>>

\* orders.ts:152-189: squareService.createOrder; a failure is logged with
\* console.error and the handler goes on to broadcast and respond
CreateOrderSquare(r) ==
  /\ req[r].op = "CreateOrder" /\ req[r].pc = "square"
  /\ \/ req' = [req EXCEPT ![r].pc = "saveSquareId", ![r].squareResult = TRUE]
     \/ req' = [req EXCEPT ![r] =
             BroadcastNewOrder([req[r] EXCEPT !.console = "Square order sync failed:"])]
  /\ UNCHANGED <<aux, menuItems, orders, payments>>

\* orders.ts:180-183 and 191-216: prisma.order.update of squareOrderId,
\* then broadcast and respond
CreateOrderSaveSquareId(r) ==
  /\ req[r].op = "CreateOrder" /\ req[r].pc = "saveSquareId"
  /\ orders' = [orders EXCEPT ![req[r].result].squareOrderId = TRUE]
  /\ req' = [req EXCEPT ![r] = BroadcastNewOrder(req[r])]
  /\ UNCHANGED <<aux, menuItems, payments>>

\* twilioService.ts:14-33: sendSMS awaits client.messages.create; when it
\* throws, the error is logged and false is returned to a caller that does
\* not look at it
SmsOutcomes == {"sent", "failed"}

\* a handler in which the failure of the SMS reaches the error handler
SendSmsPropagated(r, op, code) ==
  /\ req[r].op = op /\ req[r].pc = "sms"
  /\ \/ req' = [req EXCEPT ![r] = [Respond(r, code) EXCEPT !.sms = "sent"]]
     \/ req' = [req EXCEPT ![r] = [Respond(r, errorHandler) EXCEPT !.sms = "failed"]]
  /\ UNCHANGED <<aux, menuItems, orders, payments>>

\* orders.ts:205, payments.ts:149, part_006:346: the awaited SMS to the
\* manager, then the response of the handler
SendSms(r, op, code) ==
  /\ req[r].op = op /\ req[r].pc = "sms"
  /\ \E outcome \in SmsOutcomes :
       req' = [req EXCEPT ![r] = [Respond(r, code) EXCEPT !.sms = outcome]]
  /\ UNCHANGED <<aux, menuItems, orders, payments>>

\* orders.ts:201-216
CreateOrderSms(r) == SendSms(r, "CreateOrder", 201)

\* ------------------------------------------------ PATCH /orders/:id/status
\* orders.ts:264-275, kds.ts:57-68: the handler of slot r ends with
\* io.to('kitchen').emit('order-status-update', { orderId, status, ... }) and
\* the response; its event is now the last one broadcast for the order
BroadcastStatus(r, q) ==
  [s \in Slots |->
     IF s = r
     THEN [RespondEmit(q, "order-status-update", 200) EXCEPT !.last = TRUE]
     ELSE IF req[s].emitted = "order-status-update" /\ req[s].orderId = q.orderId
     THEN [req[s] EXCEPT !.last = FALSE]
     ELSE req[s]]

\* orders.ts:219-239: prisma.order.findUnique and the 404 answer
TransitionStatusFind(r) ==
  /\ req[r].pc = "idle"
  /\ \E id \in 1..MaxOrders, status \in StatusInputs, sync \in BOOLEAN :
       LET started == [IdleReq EXCEPT !.op = "TransitionStatus", !.orderId = id,
                                      !.status = status, !.syncToSquare = sync]
       IN IF ~OrderExists(orders, id)
          THEN req' = [req EXCEPT ![r] = [started EXCEPT !.pc = "done", !.code = 404]]
          ELSE req' = [req EXCEPT ![r] = [started EXCEPT !.pc = "update",
                                            !.squareOrderId = orders[id].squareOrderId]]
  /\ UNCHANGED <<aux, menuItems, orders, payments>>

\* a handler that lets a PENDING order go to CONFIRMED or CANCELLED only
TransitionStatusUpdateNoSkip(r) ==
  /\ req[r].op = "TransitionStatus" /\ req[r].pc = "update"
  /\ IF req[r].status \notin OrderStatus
     THEN /\ req' = [req EXCEPT ![r] = Respond(r, errorHandler)]
          /\ UNCHANGED orders
     ELSE IF /\ orders[req[r].orderId].status = "PENDING"
             /\ req[r].status \notin {"CONFIRMED", "CANCELLED"}
     THEN /\ req' = [req EXCEPT ![r] = Respond(r, 400)]
          /\ UNCHANGED orders
     ELSE LET updated == [req[r] EXCEPT !.returned = req[r].status]
          IN /\ orders' = [orders EXCEPT ![req[r].orderId].status = req[r].status]
             /\ IF req[r].syncToSquare /\ req[r].squareOrderId
                THEN req' = [req EXCEPT ![r] = [updated EXCEPT !.pc = "square"]]
                ELSE req' = BroadcastStatus(r, updated)
  /\ UNCHANGED <<aux, menuItems, payments>>

\* orders.ts:241-276: prisma.order.update({ data: { status } }) rejects a
\* value outside the enum (the error handler answers); otherwise the
\* status is written whatever the current status is, and the updated row is
\* what the response will carry
TransitionStatusUpdate(r) ==
  /\ req[r].op = "TransitionStatus" /\ req[r].pc = "update"
  /\ IF req[r].status \notin OrderStatus
     THEN /\ req' = [req EXCEPT ![r] = Respond(r, errorHandler)]
          /\ UNCHANGED orders
     ELSE LET updated == [req[r] EXCEPT !.returned = req[r].status]
          IN /\ orders' = [orders EXCEPT ![req[r].orderId].status = req[r].status]
             /\ IF req[r].syncToSquare /\ req[r].squareOrderId
                THEN req' = [req EXCEPT ![r] = [updated EXCEPT !.pc = "square"]]
                ELSE req' = BroadcastStatus(r, updated)
  /\ UNCHANGED <<aux, menuItems, payments>>

\* orders.ts:255-276: squareService.updateOrderStatus, whose failure is
\* logged with console.error, then broadcast and respond
TransitionStatusSquare(r) ==
  /\ req[r].op = "TransitionStatus" /\ req[r].pc = "square"
  /\ \/ req' = BroadcastStatus(r, [req[r] EXCEPT !.squareResult = TRUE])
     \/ req' = BroadcastStatus(r, [req[r] EXCEPT !.console = "Square status sync failed:"])
  /\ UNCHANGED <<aux, menuItems, orders, payments>>

\* ------------------------------------------------------------- KDS routes
\* kds.ts:41-68: prisma.order.update throws for an unknown id or a value
\* outside the enum (the error handler answers)
KdsStatus(r) ==
  /\ req[r].pc = "idle"
  /\ \E id \in 1..MaxOrders, status \in StatusInputs :
       LET started == [IdleReq EXCEPT !.op = "KdsStatus", !.orderId = id,
                                      !.status = status, !.pc = "done"]
       IN IF ~OrderExists(orders, id) \/ status \notin OrderStatus
          THEN /\ req' = [req EXCEPT ![r] = [started EXCEPT !.code = errorHandler]]
               /\ UNCHANGED orders
          ELSE /\ orders' = [orders EXCEPT ![id].status = status]
               /\ req' = BroadcastStatus(r, [started EXCEPT !.returned = status])
  /\ UNCHANGED <<aux, menuItems, payments>>

\* kds.ts:71-96
KdsReady(r) ==
  /\ req[r].pc = "idle"
  /\ \E id \in 1..MaxOrders :
       LET started == [IdleReq EXCEPT !.op = "KdsReady", !.orderId = id,
                                      !.status = "READY", !.pc = "done"]
       IN IF ~OrderExists(orders, id)
          THEN /\ req' = [req EXCEPT ![r] = [started EXCEPT !.code = errorHandler]]
               /\ UNCHANGED orders
          ELSE /\ orders' = [orders EXCEPT ![id].status = "READY"]
               /\ req' = [req EXCEPT ![r] =
                     RespondEmit([started EXCEPT !.returned = "READY"], "order-ready", 200)]
  /\ UNCHANGED <<aux, menuItems, payments>>

\* ---------------------------------------------------------- POST /payments
\* payments.ts:99  if (method === 'CARD' && sourceId && idempotencyKey)
ShouldCharge(method, sourceId, idempotencyKey) ==
  method = "CARD" /\ sourceId /\ idempotencyKey # None

\* payments.ts:123-132: the row written by prisma.payment.create; the
\* idempotency key is not a column of it
NewPayment(orderId, amount, method, squareResult) ==
  [orderId |-> orderId, amount |-> amount, method |-> method,
   squarePaymentId |-> squareResult,
   status |-> IF squareResult THEN "COMPLETED" ELSE "PENDING"]

\* payments.ts:140  totalPaid._sum.amount && Number(...) >= Number(order.total)
FullyPaid(sum, total) == sum # 0 /\ sum >= total

\* payments.ts:203-211: the row written for a refund
NewRefund(payment, amount, squareResult) ==
  [orderId |-> payment.orderId, amount |-> 0 - amount, method |-> payment.method,
   squarePaymentId |-> squareResult,
   status |-> IF squareResult THEN "REFUNDED" ELSE "PENDING"]

\* rows that accepted requests have still to write; a request that would
\* take the payment table past MaxPayments rows is not taken
RowsToCome ==
  Cardinality({r \in Slots : /\ req[r].op \in {"RecordPayment", "RefundPayment"}
                              /\ req[r].pc \in {"square", "create"}})

\* a handler that looks the order up only after it has charged the card
RecordPaymentFindAfterCharge(r) ==
  /\ req[r].pc = "idle"
  /\ \E id \in 1..MaxOrders, amount \in AmountInputs, shape \in PaymentShapes :
       LET started == [IdleReq EXCEPT !.op = "RecordPayment", !.orderId = id,
                                      !.amount = amount, !.method = shape.method,
                                      !.sourceId = shape.sourceId,
                                      !.idempotencyKey = shape.idempotencyKey]
           charge == ShouldCharge(shape.method, shape.sourceId, shape.idempotencyKey)
       IN IF ~OrderExists(orders, id)
          THEN req' = [req EXCEPT ![r] =
                  [started EXCEPT !.pc = "done", !.code = 404,
                                  !.error = "Order not found",
                                  !.attempts = IF charge THEN 1 ELSE 0,
                                  !.squareResult = charge]]
          ELSE /\ Len(payments) + RowsToCome < MaxPayments
               /\ req' = [req EXCEPT ![r] =
                     [started EXCEPT !.pc = IF charge THEN "square" ELSE "create"]]
  /\ UNCHANGED <<aux, menuItems, orders, payments>>

\* payments.ts:73-93: prisma.order.findUnique and the 404 answer
RecordPaymentFind(r) ==
  /\ req[r].pc = "idle"
  /\ \E id \in 1..MaxOrders, amount \in AmountInputs, shape \in PaymentShapes :
       LET started == [IdleReq EXCEPT !.op = "RecordPayment", !.orderId = id,
                                      !.amount = amount, !.method = shape.method,
                                      !.sourceId = shape.sourceId,
                                      !.idempotencyKey = shape.idempotencyKey]
       IN IF ~OrderExists(orders, id)
          THEN req' = [req EXCEPT ![r] = [started EXCEPT !.pc = "done", !.code = 404,
                                                         !.error = "Order not found"]]
          ELSE /\ Len(payments) + RowsToCome < MaxPayments
               /\ req' = [req EXCEPT ![r] =
                     [started EXCEPT !.pc =
                        IF ShouldCharge(shape.method, shape.sourceId, shape.idempotencyKey)
                        THEN "square" ELSE "create"]]
  /\ UNCHANGED <<aux, menuItems, orders, payments>>

\* the ways a call of the processor fails: the processor rejects the
\* charge, or the call times out or the network fails
ChargeFailures == {"Rejected", "Timeout"}

\* a handler that goes on to write the payment after a failed charge
RecordPaymentSquareSwallowed(r) ==
  /\ req[r].op = "RecordPayment" /\ req[r].pc = "square"
  /\ \/ req' = [req EXCEPT ![r].pc = "create", ![r].squareResult = TRUE]
     \/ req' = [req EXCEPT ![r].pc = "create"]
  /\ UNCHANGED <<aux, menuItems, orders, payments>>

\* payments.ts:99-120 and squareService.ts:20-46: squareService.createPayment
\* makes one call of paymentsApi.createPayment and throws whatever error the
\* call ends with; the route answers 400 to any error and ends the handler
RecordPaymentSquare(r) ==
  /\ req[r].op = "RecordPayment" /\ req[r].pc = "square"
  /\ \/ req' = [req EXCEPT ![r].pc = "create", ![r].squareResult = TRUE,
                            ![r].attempts = @ + 1]
     \/ \E kind \in ChargeFailures :
          req' = [req EXCEPT ![r] = [Respond(r, 400) EXCEPT
                                       !.attempts = @ + 1, !.failure = kind,
                                       !.error = "Payment processing failed"]]
  /\ UNCHANGED <<aux, menuItems, orders, payments>>

\* payments.ts:122-132: prisma.payment.create
RecordPaymentCreate(r) ==
  /\ req[r].op = "RecordPayment" /\ req[r].pc = "create"
  /\ payments' = Append(payments, NewPayment(req[r].orderId, req[r].amount,
                                              req[r].method, req[r].squareResult))
  /\ req' = [req EXCEPT ![r].pc = "aggregate", ![r].result = Len(payments) + 1]
  /\ UNCHANGED <<aux, menuItems, orders>>

\* payments.ts:134-140 and 153-159: prisma.payment.aggregate and the test
\* against order.total
RecordPaymentAggregate(r) ==
  /\ req[r].op = "RecordPayment" /\ req[r].pc = "aggregate"
  /\ IF FullyPaid(AmountPaid(payments, req[r].orderId), orders[req[r].orderId].total)
     THEN req' = [req EXCEPT ![r].pc = "confirm"]
     ELSE req' = [req EXCEPT ![r] = Respond(r, 201)]
  /\ UNCHANGED <<aux, menuItems, orders, payments>>

\* a handler that also writes the amount paid as the total of the order
RecordPaymentConfirmSettling(r) ==
  /\ req[r].op = "RecordPayment" /\ req[r].pc = "confirm"
  /\ orders' = [orders EXCEPT ![req[r].orderId].status = "CONFIRMED",
                              ![req[r].orderId].total = AmountPaid(payments, req[r].orderId)]
  /\ IF env.MANAGER_PHONE
     THEN req' = [req EXCEPT ![r].pc = "sms"]
     ELSE req' = [req EXCEPT ![r] = Respond(r, 201)]
  /\ UNCHANGED <<aux, menuItems, payments>>

\* payments.ts:141-159: prisma.order.update({ data: { status: 'CONFIRMED' } })
RecordPaymentConfirm(r) ==
  /\ req[r].op = "RecordPayment" /\ req[r].pc = "confirm"
  /\ orders' = [orders EXCEPT ![req[r].orderId].status = "CONFIRMED"]
  /\ IF env.MANAGER_PHONE
     THEN req' = [req EXCEPT ![r].pc = "sms"]
     ELSE req' = [req EXCEPT ![r] = Respond(r, 201)]
  /\ UNCHANGED <<aux, menuItems, payments>>

\* payments.ts:146-159
RecordPaymentSms(r) == SendSms(r, "RecordPayment", 201)

\* ----------------------------------------------- POST /payments/:id/refund
\* payments.ts:163-179: prisma.payment.findUnique and the 404 answer
RefundPaymentFind(r) ==
  /\ req[r].pc = "idle"
  /\ \E id \in 1..MaxPayments, amount \in AmountInputs :
       LET started == [IdleReq EXCEPT !.op = "RefundPayment", !.paymentId = id,
                                      !.amount = amount]
       IN IF ~PaymentExists(payments, id)
          THEN req' = [req EXCEPT ![r] = [started EXCEPT !.pc = "done", !.code = 404]]
          ELSE /\ Len(payments) + RowsToCome < MaxPayments
               /\ req' = [req EXCEPT ![r] =
                     [started EXCEPT !.orderId = payments[id].orderId,
                                     !.pc = IF payments[id].squarePaymentId
                                            THEN "square" ELSE "create"]]
  /\ UNCHANGED <<aux, menuItems, orders, payments>>

\* a handler that goes on to write the refund after a failed external
\* refund
RefundPaymentSquareSwallowed(r) ==
  /\ req[r].op = "RefundPayment" /\ req[r].pc = "square"
  /\ \/ req' = [req EXCEPT ![r].pc = "create", ![r].squareResult = TRUE]
     \/ req' = [req EXCEPT ![r].pc = "create"]
  /\ UNCHANGED <<aux, menuItems, orders, payments>>

\* payments.ts:184-200: squareService.refundPayment; a failure answers 400
\* and ends the handler
RefundPaymentSquare(r) ==
  /\ req[r].op = "RefundPayment" /\ req[r].pc = "square"
  /\ \/ req' = [req EXCEPT ![r].pc = "create", ![r].squareResult = TRUE]
     \/ req' = [req EXCEPT ![r] = Respond(r, 400)]
  /\ UNCHANGED <<aux, menuItems, orders, payments>>

\* payments.ts:202-219: prisma.payment.create of the negative row
RefundPaymentCreate(r) ==
  /\ req[r].op = "RefundPayment" /\ req[r].pc = "create"
  /\ payments' = Append(payments, NewRefund(payments[req[r].paymentId], req[r].amount,
                                             req[r].squareResult))
  /\ req' = [req EXCEPT ![r] = [Respond(r, 201) EXCEPT !.result = Len(payments) + 1]]
  /\ UNCHANGED <<aux, menuItems, orders>>

\* ------------------------------------------------------------- the system
\* the response is out and the request leaves
Retire(r) ==
  /\ req[r].pc = "done"
  /\ req' = [req EXCEPT ![r] = IdleReq]
  /\ UNCHANGED <<aux, menuItems, orders, payments>>

Handle(r) ==
  \/ CreateOrder(r)
  \/ CreateOrderSquare(r)
  \/ CreateOrderSaveSquareId(r)
  \/ TransitionStatusFind(r)
  \/ TransitionStatusUpdate(r)
  \/ TransitionStatusSquare(r)
  \/ KdsStatus(r)
  \/ KdsReady(r)
  \/ RecordPaymentFind(r)
  \/ RecordPaymentSquare(r)
  \/ RecordPaymentCreate(r)
  \/ RecordPaymentAggregate(r)
  \/ RecordPaymentConfirm(r)
  \/ RefundPaymentFind(r)
  \/ RefundPaymentSquare(r)
  \/ RefundPaymentCreate(r)
  \/ Retire(r)

\* up to MaxInFlight requests at a time, their steps interleaving
Next == \E r \in Slots : Handle(r)

Spec == Init /\ [][Next]_vars

\* order creation alone, over every array of order items, requests
\* overlapping
NextOrders ==
  \/ \E r \in Slots : CreateAnyOrder(r)
  \/ \E r \in Slots : CreateOrderSquare(r)
  \/ \E r \in Slots : CreateOrderSaveSquareId(r)
  \/ \E r \in Slots : Retire(r)

SpecOrders == Init /\ [][NextOrders]_vars

\* ------------------------------------------- concurrent requests, one order
\* the tables after one POST /orders for one item at 15.99 that was
\* mirrored to Square
RaceBase ==
  [orders |-> <<[NewOrder(SeedMenu, <<[menuItemId |-> 1, quantity |-> 1]>>)
                   EXCEPT !.squareOrderId = TRUE]>>,
   payments |-> <<>>]

InitRace ==
  /\ menuItems = SeedMenu
  /\ orders = RaceBase.orders
  /\ payments = RaceBase.payments
  /\ req = [r \in Slots |-> IdleReq]
  /\ InitAux

\* every slot takes one request; the steps of the handlers interleave
NextRace ==
  \/ \E r \in Slots : TransitionStatusFind(r)
  \/ \E r \in Slots : TransitionStatusUpdate(r)
  \/ \E r \in Slots : TransitionStatusSquare(r)
  \/ \E r \in Slots : RecordPaymentFind(r)
  \/ \E r \in Slots : RecordPaymentSquare(r)
  \/ \E r \in Slots : RecordPaymentCreate(r)
  \/ \E r \in Slots : RecordPaymentAggregate(r)
  \/ \E r \in Slots : RecordPaymentConfirm(r)
  \/ \E r \in Slots : RefundPaymentFind(r)
  \/ \E r \in Slots : RefundPaymentSquare(r)
  \/ \E r \in Slots : RefundPaymentCreate(r)

SpecRace == InitRace /\ [][NextRace]_vars

\* two status changes of the order that is mirrored in Square, from the
\* counter or from a kitchen display
NextStatus ==
  \/ \E r \in Slots : TransitionStatusFind(r)
  \/ \E r \in Slots : TransitionStatusUpdate(r)
  \/ \E r \in Slots : TransitionStatusSquare(r)
  \/ \E r \in Slots : KdsStatus(r)

SpecStatus == InitRace /\ [][NextStatus]_vars

\* ------------------------------------------------------- kitchen displays
\* index.ts:142-143: a client connects
Connect(c) ==
  /\ sockets[c] = "disconnected"
  /\ sockets' = [sockets EXCEPT ![c] = "connected"]
  /\ UNCHANGED <<menuItems, orders, payments, req, headers, env, users,
                 inventoryItems, hooks, jobs, tasks, logged>>

\* a join-kitchen handler that sends the events of the past to the socket
\* that joins
JoinKitchenReplaying(c) ==
  /\ sockets[c] = "connected"
  /\ sockets' = [sockets EXCEPT ![c] = "joined"]
  /\ req' = [r \in Slots |->
               IF req[r].emitted # ""
               THEN [req[r] EXCEPT !.recipients = @ \cup {c}]
               ELSE req[r]]
  /\ UNCHANGED <<menuItems, orders, payments, headers, env, users,
                 inventoryItems, hooks, jobs, tasks, logged>>

\* index.ts:145-148: socket.on('join-kitchen'): socket.join('kitchen')
JoinKitchen(c) ==
  /\ sockets[c] = "connected"
  /\ sockets' = [sockets EXCEPT ![c] = "joined"]
  /\ UNCHANGED <<menuItems, orders, payments, req, headers, env, users,
                 inventoryItems, hooks, jobs, tasks, logged>>

\* index.ts:150-152: the socket disconnects and leaves its rooms
Disconnect(c) ==
  /\ sockets[c] # "disconnected"
  /\ sockets' = [sockets EXCEPT ![c] = "disconnected"]
  /\ UNCHANGED <<menuItems, orders, payments, req, headers, env, users,
                 inventoryItems, hooks, jobs, tasks, logged>>

\* displays come and go while orders are created;
\* every slot takes one request
NextKitchen ==
  \/ \E c \in Clients : Connect(c)
  \/ \E c \in Clients : JoinKitchen(c)
  \/ \E c \in Clients : Disconnect(c)
  \/ \E r \in Slots : CreateOrder(r)
  \/ \E r \in Slots : CreateOrderSquare(r)
  \/ \E r \in Slots : CreateOrderSaveSquareId(r)

SpecKitchen == Init /\ [][NextKitchen]_vars

\* --------------------------------- every route that writes a paid order
\* the requests of SpecRace and those of the kitchen display
NextPaid ==
  \/ NextRace
  \/ \E r \in Slots : KdsStatus(r)
  \/ \E r \in Slots : KdsReady(r)

SpecPaid == InitRace /\ [][NextPaid]_vars

\* ------------------------------- requests around the creation of an order
\* every slot takes one request; a request that names the order may arrive
\* before POST /orders has written it or after
NextLookup ==
  \/ \E r \in Slots : CreateOrder(r)
  \/ \E r \in Slots : CreateOrderSquare(r)
  \/ \E r \in Slots : CreateOrderSaveSquareId(r)
  \/ \E r \in Slots : TransitionStatusFind(r)
  \/ \E r \in Slots : TransitionStatusUpdate(r)
  \/ \E r \in Slots : TransitionStatusSquare(r)
  \/ \E r \in Slots : KdsStatus(r)
  \/ \E r \in Slots : RecordPaymentFind(r)
  \/ \E r \in Slots : RecordPaymentSquare(r)
  \/ \E r \in Slots : RecordPaymentCreate(r)
  \/ \E r \in Slots : RecordPaymentAggregate(r)
  \/ \E r \in Slots : RecordPaymentConfirm(r)

SpecLookup == Init /\ [][NextLookup]_vars

\* -------------------------------------------------------- inventory routes
\* id, quantity and operation of a stock adjustment
ItemIdInputs == {1, 2}
QuantityInputs == {1, 2}
OperationInputs == {"set", "add", "subtract"}

\* the stock levels followed; an adjustment that leaves them is not taken
StockLevels == (0 - MaxStock)..MaxStock

\* prisma.inventoryItem.findUnique({ where: { id } }) returned a row
InventoryItemFound(items, id) == id \in DOMAIN items

\* part_006:322-335: the switch on operation, 'set' being the default
NewStock(currentStock, operation, quantity) ==
  CASE operation = "add" -> currentStock + quantity
    [] operation = "subtract" -> currentStock - quantity
    [] OTHER -> quantity

\* part_006:197-217: GET /inventory reads the table and answers
ListInventory(r) ==
  /\ req[r].pc = "idle"
  /\ req' = [req EXCEPT ![r] = [IdleReq EXCEPT !.op = "ListInventory", !.pc = "done",
                                              !.code = 200]]
  /\ UNCHANGED <<aux, menuItems, orders, payments>>

\* part_006:307-335: prisma.inventoryItem.findUnique, the 404 answer and the
\* new stock computed from the row that was read
AdjustStockFind(r) ==
  /\ req[r].pc = "idle"
  /\ \E id \in ItemIdInputs, quantity \in QuantityInputs, operation \in OperationInputs :
       LET started == [IdleReq EXCEPT !.op = "AdjustStock", !.itemId = id,
                                      !.quantity = quantity, !.operation = operation]
       IN IF ~InventoryItemFound(inventoryItems, id)
          THEN req' = [req EXCEPT ![r] = [started EXCEPT !.pc = "done", !.code = 404]]
          ELSE LET newStock == NewStock(inventoryItems[id].currentStock, operation, quantity)
               IN /\ newStock \in StockLevels
                  /\ req' = [req EXCEPT ![r] = [started EXCEPT !.pc = "update",
                                                               !.newStock = newStock]]
  /\ UNCHANGED <<aux, menuItems, orders, payments>>

\* part_006:337-359: prisma.inventoryItem.update({ data: { currentStock } }),
\* then the low stock alert when the new stock is at or under the minimum
\* of the row that was read
AdjustStockUpdate(r) ==
  /\ req[r].op = "AdjustStock" /\ req[r].pc = "update"
  /\ inventoryItems' = [inventoryItems EXCEPT ![req[r].itemId].currentStock = req[r].newStock]
  /\ IF req[r].newStock <= inventoryItems[req[r].itemId].minStock /\ env.MANAGER_PHONE
     THEN req' = [req EXCEPT ![r].pc = "sms"]
     ELSE req' = [req EXCEPT ![r] = Respond(r, 200)]
  /\ UNCHANGED <<menuItems, orders, payments, headers, env, users, sockets, hooks, jobs, tasks, logged>>

\* part_006:342-359
AdjustStockSms(r) == SendSms(r, "AdjustStock", 200)

\* stock adjustments that arrive together; every slot takes one request
NextStock ==
  \/ \E r \in Slots : AdjustStockFind(r)
  \/ \E r \in Slots : AdjustStockUpdate(r)

SpecStock == Init /\ [][NextStock]_vars

\* ---------------------------------------------------------- authentication
\* a refund route declared without authenticateToken
ProtectedOpsButRefund ==
  {"TransitionStatus", "KdsStatus", "KdsReady", "ListInventory", "AdjustStock",
   "Register", "CreateMenuItem", "UpdateMenuItem", "DeleteMenuItem"}

\* the operations whose route is declared with authenticateToken
ProtectedOps ==
  {"TransitionStatus", "KdsStatus", "KdsReady", "RefundPayment", "ListInventory",
   "AdjustStock", "Register", "CreateMenuItem", "UpdateMenuItem", "DeleteMenuItem"}

\* middleware/auth, authenticateToken: a request without a bearer token is
\* answered 401 with an error that names the token; code 0 stands for next()
authenticateToken(h) ==
  IF h.authorization THEN [code |-> 0, error |-> ""]
  ELSE [code |-> 401, error |-> "Access token required"]

\* the middleware in front of the handler of op let the request through
Admitted(r, op) == op \in ProtectedOps => authenticateToken(headers[r]).code = 0

\* the middleware answers in place of the handler
Unauthorized(r) ==
  /\ req[r].pc = "idle"
  /\ \E op \in ProtectedOps :
       LET answer == authenticateToken(headers[r])
       IN /\ answer.code # 0
          /\ req' = [req EXCEPT ![r] = [IdleReq EXCEPT !.op = op, !.pc = "done",
                                                      !.code = answer.code,
                                                      !.error = answer.error]]
  /\ UNCHANGED <<aux, menuItems, orders, payments>>

StaffTransitionStatus(r) == Admitted(r, "TransitionStatus") /\ TransitionStatusFind(r)
StaffKdsStatus(r) == Admitted(r, "KdsStatus") /\ KdsStatus(r)
StaffKdsReady(r) == Admitted(r, "KdsReady") /\ KdsReady(r)
StaffRefundPayment(r) == Admitted(r, "RefundPayment") /\ RefundPaymentFind(r)
StaffListInventory(r) == Admitted(r, "ListInventory") /\ ListInventory(r)
StaffAdjustStock(r) == Admitted(r, "AdjustStock") /\ AdjustStockFind(r)

\* the tables after one order was created and 8.64 of it paid by card
AuthBase ==
  [orders |-> RaceBase.orders,
   payments |-> <<NewPayment(1, 86400, "CARD", TRUE)>>]

\* each slot is a client that sends its bearer token or sends none
InitAuth ==
  /\ menuItems = SeedMenu
  /\ orders = AuthBase.orders
  /\ payments = AuthBase.payments
  /\ req = [r \in Slots |-> IdleReq]
  /\ headers \in [Slots -> {[authorization |-> TRUE, role |-> "STAFF"],
                            [authorization |-> FALSE, role |-> ""]}]
  /\ env = NoManagerPhone
  /\ users = SeedUsers
  /\ sockets = NoClient
  /\ inventoryItems = SeedInventory
  /\ hooks = [r \in Slots |-> IdleHook]
  /\ InitCron

\* every slot takes one request for a staff route
NextAuth ==
  \/ \E r \in Slots : Unauthorized(r)
  \/ \E r \in Slots : StaffTransitionStatus(r)
  \/ \E r \in Slots : TransitionStatusUpdate(r)
  \/ \E r \in Slots : TransitionStatusSquare(r)
  \/ \E r \in Slots : StaffKdsStatus(r)
  \/ \E r \in Slots : StaffKdsReady(r)
  \/ \E r \in Slots : StaffRefundPayment(r)
  \/ \E r \in Slots : RefundPaymentSquare(r)
  \/ \E r \in Slots : RefundPaymentCreate(r)
  \/ \E r \in Slots : StaffListInventory(r)
  \/ \E r \in Slots : StaffAdjustStock(r)
  \/ \E r \in Slots : AdjustStockUpdate(r)

SpecAuth == InitAuth /\ [][NextAuth]_vars

\* ------------------------------------------ POST /auth/register and /menu
MaxMenuItems == 4

\* email and role of a registration; without a role the body takes the
\* default STAFF
EmailInputs == {1, 2}
RoleInputs == {"", "STAFF", "ADMIN"}

\* auth.ts:12  role = 'STAFF'
RoleOrDefault(role) == IF role = "" THEN "STAFF" ELSE role

UserExists(us, email) == \E u \in 1..Len(us) : us[u].email = email

\* auth.ts:11-24: prisma.user.findUnique by email and the 400 answer
RegisterFind(r) ==
  /\ req[r].pc = "idle"
  /\ \E email \in EmailInputs, role \in RoleInputs :
       LET started == [IdleReq EXCEPT !.op = "Register", !.email = email,
                                      !.role = RoleOrDefault(role)]
       IN IF UserExists(users, email)
          THEN req' = [req EXCEPT ![r] = [started EXCEPT !.pc = "done", !.code = 400,
                                                         !.error = "User already exists"]]
          ELSE req' = [req EXCEPT ![r] = [started EXCEPT !.pc = "create"]]
  /\ UNCHANGED <<aux, menuItems, orders, payments>>

\* auth.ts:26-51: bcrypt.hash and prisma.user.create, which throws when
\* the email has been taken since the lookup
RegisterCreate(r) ==
  /\ req[r].op = "Register" /\ req[r].pc = "create"
  /\ IF UserExists(users, req[r].email)
     THEN /\ req' = [req EXCEPT ![r] = Respond(r, errorHandler)]
          /\ UNCHANGED users
     ELSE /\ users' = Append(users, [email |-> req[r].email, role |-> req[r].role])
          /\ req' = [req EXCEPT ![r] = [Respond(r, 201) EXCEPT !.result = Len(users) + 1]]
  /\ UNCHANGED <<menuItems, orders, payments, headers, env, sockets, inventoryItems,
                 hooks, jobs, tasks, logged>>

\* the price of a request body: 17.99, 9.5, a text that is no number, and
\* the empty text
PriceInputs == {"17.99", "9.5", "free", ""}

\* parseFloat gives NaN for a text that does not start with a number
NaN == 0 - 1

\* parseFloat(price), in units of 1/10000 dollar
parseFloat(text) ==
  CASE text = "17.99" -> 179900
    [] text = "9.5" -> 95000
    [] OTHER -> NaN

\* isAvailable of a request body: absent, true or false
AvailableInputs == {"", "true", "false"}

MenuIdInputs == 1..MaxMenuItems

\* part_007:42-60: prisma.menuItem.create, which rejects a price that is
\* NaN; isAvailable takes the column default
CreateMenuItem(r) ==
  /\ req[r].pc = "idle"
  /\ \E price \in PriceInputs :
       LET id == Cardinality(DOMAIN menuItems) + 1
           started == [IdleReq EXCEPT !.op = "CreateMenuItem", !.price = price,
                                      !.pc = "done"]
       IN IF parseFloat(price) = NaN
          THEN /\ req' = [req EXCEPT ![r] = [started EXCEPT !.code = errorHandler]]
               /\ UNCHANGED menuItems
          ELSE /\ id <= MaxMenuItems
               /\ menuItems' = menuItems @@
                     (id :> [price |-> parseFloat(price), isAvailable |-> TRUE,
                             deleted |-> FALSE, squareId |-> None])
               /\ req' = [req EXCEPT ![r] = [started EXCEPT !.code = 201, !.itemId = id]]
  /\ UNCHANGED <<aux, orders, payments>>

\* the orders with the lines of menu item id at the given price
Repriced(ords, id, price) ==
  [o \in 1..Len(ords) |->
     LET lines == [i \in 1..Len(ords[o].orderItems) |->
                     IF ords[o].orderItems[i].menuItemId = id
                     THEN [ords[o].orderItems[i] EXCEPT !.price = price]
                     ELSE ords[o].orderItems[i]]
     IN [OrderOf(lines) EXCEPT !.status = ords[o].status,
                               !.squareOrderId = ords[o].squareOrderId]]

\* a menu update that gives the new price to the lines of the orders
UpdateMenuItemRepricing(r, ids, prices, availables) ==
  /\ req[r].pc = "idle"
  /\ \E id \in ids, price \in prices, available \in availables :
       LET started == [IdleReq EXCEPT !.op = "UpdateMenuItem", !.itemId = id,
                                      !.price = price, !.available = available,
                                      !.pc = "done"]
           newPrice == IF price # "" THEN parseFloat(price) ELSE menuItems[id].price
           newAvailable == IF available = "" THEN menuItems[id].isAvailable
                           ELSE available = "true"
       IN IF ~MenuItemFound(menuItems, id) \/ (price # "" /\ parseFloat(price) = NaN)
          THEN /\ req' = [req EXCEPT ![r] = [started EXCEPT !.code = errorHandler]]
               /\ UNCHANGED <<menuItems, orders>>
          ELSE /\ menuItems' = [menuItems EXCEPT ![id].price = newPrice,
                                                 ![id].isAvailable = newAvailable]
               /\ orders' = Repriced(orders, id, newPrice)
               /\ req' = [req EXCEPT ![r] = [started EXCEPT !.code = 200]]
  /\ UNCHANGED <<aux, payments>>

\* part_007:63-85: prisma.menuItem.update; price ? parseFloat(price) :
\* undefined leaves the price when the body has none, and isAvailable is
\* written when the body has it; an unknown id or a price that is NaN
\* throws
UpdateMenuItemFrom(r, ids, prices, availables) ==
  /\ req[r].pc = "idle"
  /\ \E id \in ids, price \in prices, available \in availables :
       LET started == [IdleReq EXCEPT !.op = "UpdateMenuItem", !.itemId = id,
                                      !.price = price, !.available = available,
                                      !.pc = "done"]
           newPrice == IF price # "" THEN parseFloat(price) ELSE menuItems[id].price
           newAvailable == IF available = "" THEN menuItems[id].isAvailable
                           ELSE available = "true"
       IN IF ~MenuItemFound(menuItems, id) \/ (price # "" /\ parseFloat(price) = NaN)
          THEN /\ req' = [req EXCEPT ![r] = [started EXCEPT !.code = errorHandler]]
               /\ UNCHANGED menuItems
          ELSE /\ menuItems' = [menuItems EXCEPT ![id].price = newPrice,
                                                 ![id].isAvailable = newAvailable]
               /\ req' = [req EXCEPT ![r] = [started EXCEPT !.code = 200]]
  /\ UNCHANGED <<aux, orders, payments>>

\* any update of any menu item
UpdateMenuItem(r) == UpdateMenuItemFrom(r, MenuIdInputs, PriceInputs, AvailableInputs)

\* the pizza gets a new price
UpdateMenuItemPrice(r) == UpdateMenuItemFrom(r, {1}, {"9.5", "17.99"}, {""})

\* an order line refers to the menu item
MenuItemOrdered(ords, id) ==
  \E o \in 1..Len(ords) : \E i \in 1..Len(ords[o].orderItems) :
    ords[o].orderItems[i].menuItemId = id

\* part_007:88-99: prisma.menuItem.delete, which throws for an unknown id
\* and for an item that an order line refers to
DeleteMenuItem(r) ==
  /\ req[r].pc = "idle"
  /\ \E id \in MenuIdInputs :
       LET started == [IdleReq EXCEPT !.op = "DeleteMenuItem", !.itemId = id,
                                      !.pc = "done"]
       IN IF ~MenuItemFound(menuItems, id) \/ MenuItemOrdered(orders, id)
          THEN /\ req' = [req EXCEPT ![r] = [started EXCEPT !.code = errorHandler]]
               /\ UNCHANGED menuItems
          ELSE /\ menuItems' = [menuItems EXCEPT ![id].deleted = TRUE]
               /\ req' = [req EXCEPT ![r] = [started EXCEPT !.code = 200]]
  /\ UNCHANGED <<aux, orders, payments>>

ProtectedRegister(r) == Admitted(r, "Register") /\ RegisterFind(r)
ProtectedCreateMenuItem(r) == Admitted(r, "CreateMenuItem") /\ CreateMenuItem(r)
ProtectedUpdateMenuItem(r) == Admitted(r, "UpdateMenuItem") /\ UpdateMenuItem(r)
ProtectedDeleteMenuItem(r) == Admitted(r, "DeleteMenuItem") /\ DeleteMenuItem(r)

\* each slot is a client with the token of an administrator, with the
\* token of a member of the staff, or with no token
InitAdmin ==
  /\ menuItems = SeedMenu
  /\ orders = <<>>
  /\ payments = <<>>
  /\ req = [r \in Slots |-> IdleReq]
  /\ headers \in [Slots -> {[authorization |-> TRUE, role |-> "ADMIN"],
                            [authorization |-> TRUE, role |-> "STAFF"],
                            [authorization |-> FALSE, role |-> ""]}]
  /\ env = NoManagerPhone
  /\ users = SeedUsers
  /\ sockets = NoClient
  /\ inventoryItems = SeedInventory
  /\ hooks = [r \in Slots |-> IdleHook]
  /\ InitCron

\* the routes whose comment says admin only; every slot takes one request
NextAdmin ==
  \/ \E r \in Slots : Unauthorized(r)
  \/ \E r \in Slots : ProtectedRegister(r)
  \/ \E r \in Slots : RegisterCreate(r)
  \/ \E r \in Slots : ProtectedCreateMenuItem(r)
  \/ \E r \in Slots : ProtectedUpdateMenuItem(r)
  \/ \E r \in Slots : ProtectedDeleteMenuItem(r)

SpecAdmin == InitAdmin /\ [][NextAdmin]_vars

\* ------------------------------------------- orders while the menu changes
\* the order placed: two pizzas and one of the item that the catalog sync
\* brings, which is item 4 of the menu once it is there
MenuOrderItems ==
  {<<[menuItemId |-> 1, quantity |-> 2], [menuItemId |-> 4, quantity |-> 1]>>}

\* orders that accepted requests have still to write
OrdersToCome ==
  Cardinality({r \in Slots : req[r].op = "CreateOrder" /\ req[r].pc = "lookup"})

\* orders.ts:81-96: POST /orders up to the first menu lookup
CreateOrderArrive(r) ==
  /\ req[r].pc = "idle"
  /\ Len(orders) + OrdersToCome < MaxOrders
  /\ \E items \in MenuOrderItems, sync \in BOOLEAN :
       req' = [req EXCEPT ![r] =
          [IdleReq EXCEPT !.op = "CreateOrder", !.pc = "lookup", !.orderItems = items,
                          !.syncToSquare = sync, !.channel = "IN_PERSON"]]
  /\ UNCHANGED <<aux, menuItems, orders, payments>>

\* orders.ts:97-110: one turn of the loop, prisma.menuItem.findUnique for
\* the next item and the price of the row it returns
CreateOrderLookupItem(r) ==
  /\ req[r].op = "CreateOrder" /\ req[r].pc = "lookup"
  /\ req[r].looked < Len(req[r].orderItems)
  /\ LET item == req[r].orderItems[req[r].looked + 1]
     IN req' = [req EXCEPT ![r].looked = @ + 1,
                           ![r].processed = @ \o ProcessOrderItems(menuItems, <<item>>)]
  /\ UNCHANGED <<aux, menuItems, orders, payments>>

\* orders.ts:112-147: the totals and prisma.order.create after the last
\* lookup, then the Square sync or the broadcast
CreateOrderWrite(r) ==
  /\ req[r].op = "CreateOrder" /\ req[r].pc = "lookup"
  /\ req[r].looked = Len(req[r].orderItems)
  /\ orders' = Append(orders, OrderOf(req[r].processed))
  /\ LET created == [req[r] EXCEPT !.result = Len(orders) + 1]
     IN IF req[r].syncToSquare /\ SquareLocationConfigured
        THEN req' = [req EXCEPT ![r] = [created EXCEPT !.pc = "square"]]
        ELSE req' = [req EXCEPT ![r] = BroadcastNewOrder(created)]
  /\ UNCHANGED <<aux, menuItems, payments>>

\* the Square catalog has one item; its price in units of 1/10000 dollar
\* is 18.99 or, for a variation without an amount, 0
CatalogItem == 1
CatalogPrices == {189900, 0}

\* the rows whose squareId is that of the catalog item
RowsOfCatalogItem(menu) ==
  {id \in DOMAIN menu : ~menu[id].deleted /\ menu[id].squareId = CatalogItem}

\* squareService.ts:159-188: the prisma.menuItem.upsert of the loop of
\* syncMenuItems, which the menu-sync job calls: the row whose squareId is
\* that of the catalog item takes its price and availability, and a row
\* is created when there is none
SyncMenuItem ==
  /\ \E price \in CatalogPrices, tracked \in BOOLEAN :
       IF RowsOfCatalogItem(menuItems) # {}
       THEN \E id \in RowsOfCatalogItem(menuItems) :
              menuItems' = [menuItems EXCEPT ![id].price = price,
                                             ![id].isAvailable = tracked]
       ELSE /\ Cardinality(DOMAIN menuItems) < MaxMenuItems
            /\ menuItems' = menuItems @@
                  (Cardinality(DOMAIN menuItems) + 1 :>
                     [price |-> price, isAvailable |-> tracked, deleted |-> FALSE,
                      squareId |-> CatalogItem])
  /\ UNCHANGED <<aux, orders, payments, req>>

\* orders are placed while the price of the pizza is edited and the menu
\* is synced with the catalog; every slot takes one request
NextMenu ==
  \/ \E r \in Slots : CreateOrderArrive(r)
  \/ \E r \in Slots : CreateOrderLookupItem(r)
  \/ \E r \in Slots : CreateOrderWrite(r)
  \/ \E r \in Slots : CreateOrderSquare(r)
  \/ \E r \in Slots : CreateOrderSaveSquareId(r)
  \/ \E r \in Slots : UpdateMenuItemPrice(r)
  \/ SyncMenuItem

SpecMenu == Init /\ [][NextMenu]_vars

\* --------------------------------------------------- POST /webhooks/square
\* the x-square-signature header: the signature of the body under the
\* shared key, some other signature, or none
SignatureInputs == {"valid", "forged", ""}

ContentTypeInputs == {"application/json", "text/plain"}

\* the texts delivered: an event of each type the handler names, an event
\* of another type, and an array
PayloadInputs ==
  { "{\"type\":\"payment.updated\"}", "{\"type\":\"order.updated\"}",
    "{\"type\":\"inventory.count.updated\"}", "{\"type\":\"refund.created\"}",
    "[1]" }

\* JSON.parse(text): the value, or ok = FALSE for a SyntaxError
JsonParse(text) ==
  CASE text = "{\"type\":\"payment.updated\"}" ->
         [ok |-> TRUE, kind |-> "object", type |-> "payment.updated"]
    [] text = "{\"type\":\"order.updated\"}" ->
         [ok |-> TRUE, kind |-> "object", type |-> "order.updated"]
    [] text = "{\"type\":\"inventory.count.updated\"}" ->
         [ok |-> TRUE, kind |-> "object", type |-> "inventory.count.updated"]
    [] text = "{\"type\":\"refund.created\"}" ->
         [ok |-> TRUE, kind |-> "object", type |-> "refund.created"]
    [] text = "[1]" -> [ok |-> TRUE, kind |-> "array", type |-> ""]
    [] text = "1" -> [ok |-> TRUE, kind |-> "number", type |-> ""]
    [] OTHER -> [ok |-> FALSE, kind |-> "", type |-> ""]

\* index.ts:78: app.use(express.json()) runs for every route; it parses a
\* body of type application/json and marks the request as parsed, and
\* leaves any other request with the empty object as body
ExpressJson(contentType, payload) ==
  IF contentType = "application/json"
  THEN [parsed |-> TRUE, kind |-> JsonParse(payload).kind, text |-> payload]
  ELSE [parsed |-> FALSE, kind |-> "object", text |-> ""]

\* index.ts:101: express.raw({ type: 'application/json' }) in front of the
\* handler; it leaves a request that is already parsed as it is, and
\* otherwise reads a body of type application/json into a Buffer
ExpressRaw(contentType, payload, body) ==
  IF body.parsed THEN body
  ELSE IF contentType = "application/json"
  THEN [parsed |-> TRUE, kind |-> "buffer", text |-> payload]
  ELSE body

\* index.ts:104: req.body.toString() of a Buffer is its text, of an object
\* "[object Object]", of an array its elements joined by commas
BodyToString(body) ==
  CASE body.kind = "buffer" -> body.text
    [] body.kind = "array" -> IF body.text = "[1]" THEN "1" ELSE ""
    [] OTHER -> "[object Object]"

\* squareService.ts:273-287: the verification is not written; true is
\* returned in development and in production
verifyWebhook(signature, body, url) == TRUE

\* index.ts:117-132: the line the switch on event.type logs
HookLine(type) ==
  CASE type = "payment.updated" -> "Payment webhook received"
    [] type = "order.updated" -> "Order webhook received"
    [] type = "inventory.count.updated" -> "Inventory webhook received"
    [] OTHER -> "Unknown webhook event"

\* index.ts:78 and 101-108: the body parsers, then the handler up to the
\* import of the Square service
HookReceive(r) ==
  /\ hooks[r].pc = "idle"
  /\ \E signature \in SignatureInputs, contentType \in ContentTypeInputs,
        payload \in PayloadInputs :
       LET body == ExpressRaw(contentType, payload, ExpressJson(contentType, payload))
       IN hooks' = [hooks EXCEPT ![r] =
            [IdleHook EXCEPT !.pc = "verify", !.signature = signature,
                             !.contentType = contentType, !.payload = payload,
                             !.body = BodyToString(body)]]
  /\ UNCHANGED <<menuItems, orders, payments, req, headers, env, users, sockets, inventoryItems,
                 jobs, tasks, logged>>

\* index.ts:109-138: the signature check and its 401, JSON.parse, the
\* switch on event.type and the 200; the catch answers 500
HookHandle(r) ==
  /\ hooks[r].pc = "verify"
  /\ LET h == hooks[r]
         event == JsonParse(h.body)
     IN IF ~verifyWebhook(h.signature, h.body, "/webhooks/square")
        THEN hooks' = [hooks EXCEPT ![r].pc = "done", ![r].code = 401]
        ELSE IF ~event.ok
        THEN hooks' = [hooks EXCEPT ![r].pc = "done", ![r].verified = TRUE,
                                    ![r].logged = "Webhook processing failed",
                                    ![r].code = 500]
        ELSE hooks' = [hooks EXCEPT ![r].pc = "done", ![r].verified = TRUE,
                                    ![r].parsed = TRUE, ![r].type = event.type,
                                    ![r].logged = HookLine(event.type),
                                    ![r].code = 200]
  /\ UNCHANGED <<menuItems, orders, payments, req, headers, env, users, sockets, inventoryItems,
                 jobs, tasks, logged>>

\* the response is out and the delivery leaves
HookRetire(r) ==
  /\ hooks[r].pc = "done"
  /\ hooks' = [hooks EXCEPT ![r] = IdleHook]
  /\ UNCHANGED <<menuItems, orders, payments, req, headers, env, users, sockets, inventoryItems,
                 jobs, tasks, logged>>

\* deliveries overlap, as the requests do
NextHooks ==
  \/ \E r \in Slots : HookReceive(r)
  \/ \E r \in Slots : HookHandle(r)
  \/ \E r \in Slots : HookRetire(r)

SpecHooks == Init /\ [][NextHooks]_vars

\* ------------------------------------------------------------ cron service
RECURSIVE SumOver(_, _)
SumOver(f, S) ==
  IF S = {} THEN 0
  ELSE LET x == CHOOSE y \in S : TRUE IN f[x] + SumOver(f, S \ {x})

\* the executions under way, over all jobs
Executing ==
  SumOver([j \in JobNames |-> tasks[j].body + tasks[j].thrown + tasks[j].returned],
          JobNames)

\* cronService.ts:82-92: the schedule of a started job comes round and its
\* callback is called, whether or not an earlier execution is still under
\* way; the callback runs up to the await of its body
JobFires(j) ==
  /\ jobs[j]
  /\ Executing < MaxRunning
  /\ tasks' = [tasks EXCEPT ![j].body = @ + 1]
  /\ UNCHANGED <<menuItems, orders, payments, req, headers, env, users, sockets, inventoryItems, hooks,
                 jobs, logged>>

\* the awaited body of the job returns
JobBodyReturns(j) ==
  /\ tasks[j].body > 0
  /\ tasks' = [tasks EXCEPT ![j].body = @ - 1, ![j].returned = @ + 1]
  /\ UNCHANGED <<menuItems, orders, payments, req, headers, env, users, sockets, inventoryItems, hooks,
                 jobs, logged>>

\* the awaited body of the job throws
JobBodyThrows(j) ==
  /\ tasks[j].body > 0
  /\ tasks' = [tasks EXCEPT ![j].body = @ - 1, ![j].thrown = @ + 1]
  /\ UNCHANGED <<menuItems, orders, payments, req, headers, env, users, sockets, inventoryItems, hooks,
                 jobs, logged>>

\* the callback goes on after the await: logger.info('... job completed
\* successfully')
JobCompleted(j) ==
  /\ tasks[j].returned > 0
  /\ tasks' = [tasks EXCEPT ![j].returned = @ - 1]
  /\ logged' = [job |-> j, level |-> "info"]
  /\ UNCHANGED <<menuItems, orders, payments, req, headers, env, users, sockets, inventoryItems, hooks,
                 jobs>>

\* a catch block that stops every job
JobFailedStopsAll(j) ==
  /\ tasks[j].thrown > 0
  /\ tasks' = [tasks EXCEPT ![j].thrown = @ - 1]
  /\ logged' = [job |-> j, level |-> "error"]
  /\ jobs' = [k \in JobNames |-> FALSE]
  /\ UNCHANGED <<menuItems, orders, payments, req, headers, env, users, sockets, inventoryItems, hooks>>

\* the catch block of the callback: logger.error('... job failed')
JobFailed(j) ==
  /\ tasks[j].thrown > 0
  /\ tasks' = [tasks EXCEPT ![j].thrown = @ - 1]
  /\ logged' = [job |-> j, level |-> "error"]
  /\ UNCHANGED <<menuItems, orders, payments, req, headers, env, users, sockets, inventoryItems, hooks,
                 jobs>>

\* startJob, stopJob and stopAllJobs have no caller: a job stays started
NextCron ==
  \/ \E j \in JobNames : JobFires(j)
  \/ \E j \in JobNames : JobBodyReturns(j)
  \/ \E j \in JobNames : JobBodyThrows(j)
  \/ \E j \in JobNames : JobCompleted(j)
  \/ \E j \in JobNames : JobFailed(j)

SpecCron == Init /\ [][NextCron]_vars

\* ------------------------------------------------- notifying the manager
\* process.env with MANAGER_PHONE set
InitNotify ==
  /\ menuItems = SeedMenu
  /\ orders = <<>>
  /\ payments = <<>>
  /\ req = [r \in Slots |-> IdleReq]
  /\ headers = WithToken
  /\ env = [MANAGER_PHONE |-> TRUE]
  /\ users = SeedUsers
  /\ sockets = NoClient
  /\ inventoryItems = SeedInventory
  /\ hooks = [r \in Slots |-> IdleHook]
  /\ InitCron

\* the three routes that text the manager; every slot takes one request
NextNotify ==
  \/ \E r \in Slots : CreateOrderAnyChannel(r)
  \/ \E r \in Slots : CreateOrderSquare(r)
  \/ \E r \in Slots : CreateOrderSaveSquareId(r)
  \/ \E r \in Slots : CreateOrderSms(r)
  \/ \E r \in Slots : RecordPaymentFind(r)
  \/ \E r \in Slots : RecordPaymentSquare(r)
  \/ \E r \in Slots : RecordPaymentCreate(r)
  \/ \E r \in Slots : RecordPaymentAggregate(r)
  \/ \E r \in Slots : RecordPaymentConfirm(r)
  \/ \E r \in Slots : RecordPaymentSms(r)
  \/ \E r \in Slots : AdjustStockFind(r)
  \/ \E r \in Slots : AdjustStockUpdate(r)
  \/ \E r \in Slots : AdjustStockSms(r)

SpecNotify == InitNotify /\ [][NextNotify]_vars

\* ---------------------------------------------------- inventory predictions
\* part_006:388  dailyUsage: Math.max(1, item.currentStock / 7): usage is
\* counted in sevenths of a unit a day, so that it stays an integer
UsageScale == 7

\* part_006:389  leadTime: 3
DefaultLeadTime == 3

Max(a, b) == IF a >= b THEN a ELSE b

\* Math.ceil(num / den) for den > 0
Ceil(num, den) == 0 - ((0 - num) \div den)

\* aiService.ts:184 and 191, 195: item.currentStock / item.dailyUsage <= days.
\* Dividing by 0 gives Infinity for a positive stock, -Infinity for a
\* negative one and NaN for 0, and no comparison with NaN is true
DaysRemainingAtMost(item, days) ==
  IF item.dailyUsage > 0
  THEN item.currentStock * UsageScale <= days * item.dailyUsage
  ELSE IF item.dailyUsage = 0
  THEN item.currentStock < 0
  ELSE item.currentStock * UsageScale >= days * item.dailyUsage

\* aiService.ts:185 and 194: Math.ceil(safetyStock - item.currentStock) with
\* safetyStock = item.dailyUsage * item.leadTime * 1.5
RecommendedOrder(item) ==
  Ceil(3 * item.dailyUsage * item.leadTime - 2 * UsageScale * item.currentStock,
       2 * UsageScale)

\* aiService.ts:183-211: the prediction for one item
predictInventoryNeeds(item) ==
  IF DaysRemainingAtMost(item, item.leadTime)
  THEN [urgency |-> "high", recommendedOrder |-> Max(0, RecommendedOrder(item))]
  ELSE IF DaysRemainingAtMost(item, item.leadTime * 2)
  THEN [urgency |-> "medium", recommendedOrder |-> Max(0, RecommendedOrder(item))]
  ELSE [urgency |-> "low", recommendedOrder |-> Max(0, 0)]

\* part_006:385-390: the item handed to the service for a row of the table
InventoryData(row) ==
  [currentStock |-> row.currentStock,
   dailyUsage |-> Max(UsageScale, row.currentStock),
   leadTime |-> DefaultLeadTime]

\* part_006:380-399: GET /inventory/predictions reads the table, maps the
\* rows to items and answers with the predictions of the service
GetPredictions(r) ==
  /\ req[r].pc = "idle"
  /\ LET data == [i \in DOMAIN inventoryItems |-> InventoryData(inventoryItems[i])]
     IN req' = [req EXCEPT ![r] =
          [IdleReq EXCEPT !.op = "GetPredictions", !.pc = "done", !.code = 200,
                          !.inventoryData = data,
                          !.predictions = [i \in DOMAIN data |->
                                             predictInventoryNeeds(data[i])]]]
  /\ UNCHANGED <<aux, menuItems, orders, payments>>

\* the items a caller of the exported service may pass: stock, usage a day
\* (0, 3/7, 1 and 5 units) and lead time
CurrentStockInputs == {0, 2, 3, 10}
DailyUsageInputs == {0, 3, 7, 35}
LeadTimeInputs == {1, 3}

\* aiService.ts:171-223: a call of aiService.predictInventoryNeeds with an
\* array of one item
CallPredictInventoryNeeds(r) ==
  /\ req[r].pc = "idle"
  /\ \E currentStock \in CurrentStockInputs, dailyUsage \in DailyUsageInputs,
        leadTime \in LeadTimeInputs :
       LET item == [currentStock |-> currentStock, dailyUsage |-> dailyUsage,
                    leadTime |-> leadTime]
       IN req' = [req EXCEPT ![r] =
            [IdleReq EXCEPT !.op = "predictInventoryNeeds", !.pc = "done",
                            !.inventoryData = <<item>>,
                            !.predictions = <<predictInventoryNeeds(item)>>]]
  /\ UNCHANGED <<aux, menuItems, orders, payments>>

\* predictions asked for while the stock is being adjusted, and calls of
\* the service
NextPredict ==
  \/ \E r \in Slots : GetPredictions(r)
  \/ \E r \in Slots : CallPredictInventoryNeeds(r)
  \/ \E r \in Slots : AdjustStockFind(r)
  \/ \E r \in Slots : AdjustStockUpdate(r)
  \/ \E r \in Slots : Retire(r)

SpecPredict == Init /\ [][NextPredict]_vars

\* -------------------------------------------------------------- properties
Done(r, op) == req[r].op = op /\ req[r].pc = "done"

\* the sum of price x quantity over the rows of lines whose index is in idx
RECURSIVE LineSum(_, _)
LineSum(lines, idx) ==
  IF idx = {} THEN 0
  ELSE LET i == CHOOSE j \in idx : TRUE
       IN lines[i].price * lines[i].quantity + LineSum(lines, idx \ {i})

\* C1: every order persisted by a CreateOrder has total = subtotal + tax,
\* tax = 8% of subtotal, and subtotal = the sum over its persisted lines of
\* captured unit price x quantity.
TotalInvariant ==
  \A o \in 1..Len(orders) :
    /\ orders[o].total = orders[o].subtotal + orders[o].tax
    /\ 100 * orders[o].tax = 8 * orders[o].subtotal
    /\ orders[o].subtotal = LineSum(orders[o].orderItems, DOMAIN orders[o].orderItems)

\* a CreateOrder has answered 201 for an order of two lines, 2 x 15.99 and
\* 1 x 12.99, with a tax of 3.5976
TotalInvariantWitness ==
  \E r \in Slots :
    /\ Done(r, "CreateOrder") /\ req[r].code = 201
    /\ Len(orders[req[r].result].orderItems) = 2
    /\ orders[req[r].result].subtotal = 449700
    /\ orders[req[r].result].tax = 35976

\* C2: two RecordPayment calls for the same order with the same
\* idempotencyKey and the same amount leave one payment record, and the
\* second call returns the payment the first one returned.
IdempotentReplay ==
  \A r1 \in Slots : \A r2 \in Slots :
    ( /\ r1 # r2
      /\ Done(r1, "RecordPayment") /\ Done(r2, "RecordPayment")
      /\ req[r1].code = 201 /\ req[r2].code = 201
      /\ req[r1].idempotencyKey # None
      /\ req[r2].idempotencyKey = req[r1].idempotencyKey
      /\ req[r2].orderId = req[r1].orderId
      /\ req[r2].amount = req[r1].amount )
    => req[r2].result = req[r1].result

\* the largest amount paid the order has ever had: the rows are only ever
\* appended, so the amounts paid over time are the sums of the prefixes
MostEverPaid(o) ==
  LET prefix(k) == AmountPaid(SubSeq(payments, 1, k), o)
  IN CHOOSE m \in {prefix(k) : k \in 0..Len(payments)} :
       \A k \in 0..Len(payments) : prefix(k) <= m

\* C3: no order is CONFIRMED while the sum of its payments (refunds
\* negative) has always been below its total.
ConfirmedOnlyWhenPaid ==
  \A o \in 1..Len(orders) :
    orders[o].status = "CONFIRMED" => MostEverPaid(o) >= orders[o].total

Terminal == {"COMPLETED", "CANCELLED"}

TransitionOps == {"TransitionStatus", "KdsStatus", "KdsReady"}

\* request r takes a step of a status route in this transition
StatusRouteStep(r) == req'[r] # req[r] /\ req'[r].op \in TransitionOps

\* C4: a status route called on an order that is COMPLETED or CANCELLED
\* fails and leaves the status as it is.
TerminalIsFinal ==
  [][\A r \in Slots :
       ( /\ StatusRouteStep(r)
         /\ OrderExists(orders, req'[r].orderId)
         /\ orders[req'[r].orderId].status \in Terminal )
       => /\ orders'[req'[r].orderId].status = orders[req'[r].orderId].status
          /\ req'[r].pc = "done" => req'[r].code # 200]_vars

Rank(status) ==
  CASE status = "PENDING" -> 1 [] status = "CONFIRMED" -> 2 [] status = "PREPARING" -> 3
    [] status = "READY" -> 4 [] status = "COMPLETED" -> 5 [] OTHER -> 0

\* forward along PENDING, CONFIRMED, PREPARING, READY, COMPLETED, or to
\* CANCELLED from a status that is not terminal
ValidTransition(from, to) ==
  /\ from \notin Terminal
  /\ to \in OrderStatus
  /\ to = "CANCELLED" \/ Rank(to) > Rank(from)

\* C5: the status written by TransitionStatus is a valid transition from
\* the current status; any other request is rejected and the stored status
\* stays.
OnlyValidTransitions ==
  [][\A r \in Slots :
       ( /\ req'[r] # req[r]
         /\ req'[r].op \in {"TransitionStatus", "KdsStatus"}
         /\ OrderExists(orders, req'[r].orderId)
         /\ ~ValidTransition(orders[req'[r].orderId].status, req'[r].status) )
       => orders'[req'[r].orderId].status = orders[req'[r].orderId].status]_vars

\* C6: when the processor call of a card payment fails, the request is
\* answered with an error, it has persisted no payment record, and the
\* order's status is not changed.
FailedChargeLeavesNoTrace ==
  [][\A r \in Slots :
       ( /\ req[r].op = "RecordPayment" /\ req[r].pc = "square"
         /\ req'[r] # req[r]
         /\ ~req'[r].squareResult )
       => /\ req'[r].pc = "done" /\ req'[r].code = 400
          /\ req'[r].result = None
          /\ payments' = payments
          /\ orders' = orders]_vars

\* a card payment has been answered 400 after the processor failed
FailedChargeWitness ==
  \E r \in Slots :
    /\ Done(r, "RecordPayment") /\ req[r].code = 400
    /\ ShouldCharge(req[r].method, req[r].sourceId, req[r].idempotencyKey)
    /\ ~req[r].squareResult

\* C7: a refund of more than the original payment's amount is rejected and
\* persists no record (the unrefunded balance is never more than that
\* amount).
RefundWithinBalance ==
  \A r \in Slots :
    ( /\ Done(r, "RefundPayment")
      /\ PaymentExists(payments, req[r].paymentId)
      /\ req[r].amount > payments[req[r].paymentId].amount )
    => req[r].code # 201 /\ req[r].result = None

\* C8: for a payment with a squarePaymentId, the refund row is written
\* only after the external refund succeeded, and when the external refund
\* fails the request ends with no row written.
RefundMirrorsFirst ==
  [][\A r \in Slots :
       /\ ( /\ req[r].op = "RefundPayment" /\ req[r].pc = "square"
            /\ req'[r] # req[r]
            /\ ~req'[r].squareResult )
          => /\ req'[r].pc = "done" /\ req'[r].code = 400
             /\ req'[r].result = None
             /\ payments' = payments
       /\ ( /\ req[r].op = "RefundPayment"
            /\ req'[r] # req[r]
            /\ payments' # payments
            /\ payments[req[r].paymentId].squarePaymentId )
          => req[r].squareResult]_vars

\* a refund of a payment with a squarePaymentId has been answered 400
\* after the external refund failed
RefundMirrorsFirstWitness ==
  \E r \in Slots :
    /\ Done(r, "RefundPayment") /\ req[r].code = 400
    /\ payments[req[r].paymentId].squarePaymentId
    /\ ~req[r].squareResult

\* the tables after the handler of request q has run alone on db, for each
\* outcome the processor may give
SerialOutcomes(db, q) ==
  CASE q.op = "TransitionStatus" ->
         IF OrderExists(db.orders, q.orderId) /\ q.status \in OrderStatus
         THEN {[db EXCEPT !.orders[q.orderId].status = q.status]}
         ELSE {db}
    [] q.op = "RecordPayment" ->
         IF ~OrderExists(db.orders, q.orderId) THEN {db}
         ELSE LET charge == ShouldCharge(q.method, q.sourceId, q.idempotencyKey)
                  pays == Append(db.payments, NewPayment(q.orderId, q.amount, q.method, charge))
                  paid == IF FullyPaid(AmountPaid(pays, q.orderId), db.orders[q.orderId].total)
                          THEN [db EXCEPT !.payments = pays,
                                          !.orders[q.orderId].status = "CONFIRMED"]
                          ELSE [db EXCEPT !.payments = pays]
              IN IF charge THEN {db, paid} ELSE {paid}
    [] q.op = "RefundPayment" ->
         IF ~PaymentExists(db.payments, q.paymentId) THEN {db}
         ELSE LET mirror == db.payments[q.paymentId].squarePaymentId
                  refunded == [db EXCEPT !.payments =
                                 Append(@, NewRefund(db.payments[q.paymentId], q.amount, mirror))]
              IN IF mirror THEN {db, refunded} ELSE {refunded}
    [] OTHER -> {db}

\* the tables after the requests of the slots have run one after the
\* other, in the order perm[1], perm[2], ..., perm[n]
RECURSIVE SerialRuns(_, _)
SerialRuns(perm, n) ==
  IF n = 0 THEN {RaceBase}
  ELSE UNION {SerialOutcomes(db, req[perm[n]]) : db \in SerialRuns(perm, n - 1)}

\* status and amount paid of every order
StatusAndPaid(db) ==
  [o \in 1..Len(db.orders) |-> <<db.orders[o].status, AmountPaid(db.payments, o)>>]

\* C9: once the concurrent requests against an order have finished, its
\* status and amount paid are those of some sequential execution of the
\* same requests.
Serializable ==
  (\A r \in Slots : ~InFlight(r))
  => \E perm \in Permutations(Slots) :
       \E db \in SerialRuns(perm, MaxInFlight) :
         StatusAndPaid([orders |-> orders, payments |-> payments]) = StatusAndPaid(db)

\* a line for a menu item that does not exist or is not available, or with
\* a quantity that is not positive
InvalidLine(menu, item) ==
  \/ ~MenuItemFound(menu, item.menuItemId)
  \/ ~menu[item.menuItemId].isAvailable
  \/ item.quantity <= 0

\* C10: a CreateOrder with an invalid line fails with 400, persists no
\* order and broadcasts no new-order event.
CreateOrderValidates ==
  \A r \in Slots :
    ( /\ req[r].op = "CreateOrder"
      /\ \E i \in 1..Len(req[r].orderItems) : InvalidLine(menuItems, req[r].orderItems[i]) )
    => /\ req[r].result = None
       /\ req[r].emitted = ""
       /\ req[r].pc = "done" => req[r].code = 400

\* request r arrives in this transition, for one of the routes in ops
Arrives(r, ops) == req[r].pc = "idle" /\ req'[r].op \in ops

\* C11: a TransitionStatus request for an order id that does not exist is
\* answered 404, no order is created or modified and no order-status-update
\* event is broadcast.
UnknownOrderNotFound ==
  [][\A r \in Slots :
       ( /\ Arrives(r, {"TransitionStatus", "KdsStatus"})
         /\ ~OrderExists(orders, req'[r].orderId) )
       => /\ req'[r].pc = "done" /\ req'[r].code = 404
          /\ req'[r].emitted = ""
          /\ orders' = orders]_vars

InvalidCardPaymentIs400 ==
  [][\A r \in Slots :
       ( /\ Arrives(r, {"RecordPayment"})
         /\ ~OrderExists(orders, req'[r].orderId)
         /\ req'[r].method = "CARD" /\ req'[r].sourceId )
       => /\ req'[r].pc = "done" /\ req'[r].code = 400
          /\ req'[r].error # ""
          /\ payments' = payments]_vars

\* C14: a TransitionStatus request with status PREPARING for an order whose
\* status is PENDING is accepted: the stored status and the status of the
\* order the response carries are PREPARING, and the response is 200.
PendingToPreparingAccepted ==
  [][\A r \in Slots :
       /\ ( /\ req[r].op = "TransitionStatus" /\ req[r].pc = "update"
            /\ req'[r] # req[r]
            /\ req[r].status = "PREPARING"
            /\ orders[req[r].orderId].status = "PENDING" )
          => /\ orders'[req[r].orderId].status = "PREPARING"
             /\ req'[r].returned = "PREPARING"
             /\ req'[r].pc \in {"square", "done"}
             /\ req'[r].pc = "done" => req'[r].code = 200
       /\ ( /\ req[r].op = "TransitionStatus" /\ req[r].pc = "square"
            /\ req'[r] # req[r] )
          => /\ req'[r].pc = "done" /\ req'[r].code = 200
             /\ req'[r].returned = req[r].returned]_vars

\* the other request created the order, and the TransitionStatus request
\* has been answered 200 with status PREPARING, which is the stored status
PendingToPreparingWitness ==
  \E r \in Slots : \E c \in Slots :
    /\ Done(c, "CreateOrder")
    /\ Done(r, "TransitionStatus") /\ req[r].code = 200
    /\ req[r].status = "PREPARING" /\ req[r].returned = "PREPARING"
    /\ orders[req[r].orderId].status = "PREPARING"

\* the operations reserved to the staff
StaffOps ==
  {"TransitionStatus", "KdsStatus", "KdsReady", "RefundPayment", "ListInventory",
   "AdjustStock"}

\* C15: a request for a staff operation that carries no bearer token is
\* answered 401 with an error naming the token, and changes no order, no
\* payment and no inventory item.
NoTokenNoEffect ==
  [][\A r \in Slots :
       ( /\ req'[r] # req[r]
         /\ req'[r].op \in StaffOps
         /\ ~headers[r].authorization )
       => /\ req'[r].pc = "done" /\ req'[r].code = 401
          /\ req'[r].error = "Access token required"
          /\ orders' = orders
          /\ payments' = payments
          /\ inventoryItems' = inventoryItems]_vars

\* a refund and a stock adjustment sent without a token have been answered
\* 401
NoTokenWitness ==
  /\ \A r \in Slots : ~headers[r].authorization
  /\ \E r \in Slots : Done(r, "RefundPayment") /\ req[r].code = 401
  /\ \E r \in Slots : Done(r, "AdjustStock") /\ req[r].code = 401

\* C16: a webhook delivery whose signature does not match is answered 401
\* and its body is neither parsed nor handled.
BadSignatureRejected ==
  \A r \in Slots :
    (hooks[r].pc = "done" /\ hooks[r].signature # "valid")
    => /\ ~hooks[r].verified
       /\ hooks[r].code = 401
       /\ ~hooks[r].parsed
       /\ hooks[r].logged = ""

HandledTypes == {"payment.updated", "order.updated", "inventory.count.updated"}

\* C17: a verified webhook event whose type is not one of the handled
\* types is answered 200 and logged as an unknown event.
UnknownEventAcknowledged ==
  \A r \in Slots :
    ( /\ hooks[r].pc = "done" /\ hooks[r].verified
      /\ hooks[r].contentType = "application/json"
      /\ JsonParse(hooks[r].payload).kind = "object"
      /\ JsonParse(hooks[r].payload).type \notin HandledTypes )
    => /\ hooks[r].code = 200
       /\ hooks[r].logged = "Unknown webhook event"

\* C18: a card payment request without an idempotencyKey is rejected and
\* persists no payment record.
CardNeedsIdempotencyKey ==
  \A r \in Slots :
    ( /\ req[r].op = "RecordPayment"
      /\ req[r].method = "CARD"
      /\ req[r].idempotencyKey = None )
    => /\ req[r].result = None
       /\ req[r].pc = "done" => req[r].code # 201

\* C19: a charge that times out is surfaced to the caller only after the
\* adapter has tried it a second time, a rejected charge is surfaced after
\* the first call, and no charge is tried more than twice.
RetryOnceThenSurface ==
  \A r \in Slots :
    req[r].op = "RecordPayment"
    => /\ req[r].attempts <= 2
       /\ (req[r].pc = "done" /\ req[r].failure = "Timeout") => req[r].attempts = 2
       /\ (req[r].pc = "done" /\ req[r].failure = "Rejected") => req[r].attempts = 1

\* C20: an exception thrown by the body of a job is caught and logged in
\* that job; it leaves every job, the failed one included, scheduled as it
\* was, and leaves the executions of the other jobs as they were.
JobFailureIsolated ==
  [][\A j \in JobNames :
       tasks'[j].thrown < tasks[j].thrown
       => /\ logged' = [job |-> j, level |-> "error"]
          /\ jobs' = jobs
          /\ \A k \in JobNames \ {j} : tasks'[k] = tasks[k]
          /\ tasks'[j].body = tasks[j].body]_vars

\* the failure of menu-sync is the last thing logged and as many
\* executions of menu-sync as can be under way are: one of them at least
\* began after the failure
JobFailureWitness ==
  /\ logged = [job |-> "menu-sync", level |-> "error"]
  /\ jobs["menu-sync"]
  /\ tasks["menu-sync"].body = MaxRunning

\* the prediction the specification gives for an item: daysRemaining is
\* currentStock / max(1, dailyUsage)
ExpectedPrediction(item) ==
  LET within(days) ==
        item.currentStock * UsageScale <= days * Max(UsageScale, item.dailyUsage)
      quantity == Max(0, Ceil(3 * item.dailyUsage * item.leadTime
                              - 2 * UsageScale * item.currentStock, 2 * UsageScale))
  IN IF within(item.leadTime) THEN [urgency |-> "high", recommendedOrder |-> quantity]
     ELSE IF within(2 * item.leadTime)
     THEN [urgency |-> "medium", recommendedOrder |-> quantity]
     ELSE [urgency |-> "low", recommendedOrder |-> 0]

MirrorFails(r) ==
  /\ req[r].op \in {"CreateOrder", "TransitionStatus"}
  /\ req[r].pc = "square"
  /\ req'[r] # req[r]
  /\ ~req'[r].squareResult

\* C22: CreateOrder and TransitionStatus write the order or its status in
\* the step that precedes the call of Square; when that call fails, the
\* failure is logged, the tables stay as they are, the kitchen event is
\* broadcast and the request is answered 201 or 200.
MirrorFailureSwallowed ==
  [][\A r \in Slots :
       /\ ( /\ req[r].pc = "idle" /\ req'[r].pc = "square"
            /\ req'[r].op = "CreateOrder" )
          => /\ Len(orders') = Len(orders) + 1
             /\ req'[r].result = Len(orders')
       /\ ( /\ req[r].pc = "update" /\ req'[r].pc = "square"
            /\ req'[r].op = "TransitionStatus" )
          => orders'[req[r].orderId].status = req[r].status
       /\ MirrorFails(r)
          => /\ req'[r].console # ""
             /\ orders' = orders
             /\ req'[r].pc = "done"
             /\ req[r].op = "CreateOrder"
                => /\ req'[r].code = 201 /\ req'[r].emitted = "new-order"
                   /\ OrderExists(orders', req[r].result)
             /\ req[r].op = "TransitionStatus"
                => /\ req'[r].code = 200
                   /\ req'[r].emitted = "order-status-update"]_vars

\* the status of a mirrored order was set to READY, the call of Square
\* failed, and the request was answered 200 after the broadcast
MirrorFailureWitness ==
  \E r \in Slots :
    /\ Done(r, "TransitionStatus") /\ req[r].code = 200
    /\ req[r].console = "Square status sync failed:"
    /\ req[r].emitted = "order-status-update"
    /\ req[r].status = "READY" /\ orders[req[r].orderId].status = "READY"

\* C23: when the SMS of CreateOrder, RecordPayment or a stock adjustment
\* cannot be sent, the request is answered as if it had been sent, and the
\* order, the payment and the stock written before it stay as they are.
SmsFailureSwallowed ==
  [][\A r \in Slots :
       ( /\ req[r].pc = "sms"
         /\ req'[r] # req[r]
         /\ req'[r].sms = "failed" )
       => /\ req'[r].pc = "done"
          /\ req'[r].code = IF req[r].op = "AdjustStock" THEN 200 ELSE 201
          /\ orders' = orders
          /\ payments' = payments
          /\ inventoryItems' = inventoryItems
          /\ req[r].op = "CreateOrder" => OrderExists(orders', req[r].result)
          /\ req[r].op = "RecordPayment"
             => /\ PaymentExists(payments', req[r].result)
                /\ payments'[req[r].result].amount = req[r].amount]_vars

\* an online order and the payment that confirmed it have both been
\* answered 201 after their SMS failed
SmsFailureWitness ==
  \E r \in Slots : \E c \in Slots :
    /\ Done(c, "CreateOrder") /\ req[c].code = 201 /\ req[c].sms = "failed"
    /\ req[c].emitted = "new-order"
    /\ OrderExists(orders, req[c].result)
    /\ Done(r, "RecordPayment") /\ req[r].code = 201 /\ req[r].sms = "failed"
    /\ req[r].orderId = req[c].result
    /\ PaymentExists(payments, req[r].result)
    /\ orders[req[r].orderId].status = "CONFIRMED"

\* the operations the routes call admin only
AdminOps == {"Register", "CreateMenuItem", "UpdateMenuItem", "DeleteMenuItem"}

\* C24: a request for an admin only operation from a caller whose role is
\* not ADMIN registers no user and creates, changes and deletes no menu
\* item.
AdminOnly ==
  [][\A r \in Slots :
       ( /\ req'[r] # req[r]
         /\ req'[r].op \in AdminOps
         /\ headers[r].role # "ADMIN" )
       => /\ users' = users
          /\ menuItems' = menuItems]_vars

\* the menu changes in this transition: a menu update or an upsert of the
\* catalog sync
MenuChanges == menuItems' # menuItems

\* C25: the price of an order line is the price the menu item had when the
\* handler looked it up, and no menu update and no catalog sync changes the
\* lines, the subtotal, the tax or the total of an order that exists.
PriceCapturedAtOrderTime ==
  [][/\ \A r \in Slots :
          ( /\ req[r].op = "CreateOrder" /\ req[r].pc = "lookup"
            /\ req'[r].looked = req[r].looked + 1
            /\ MenuItemFound(menuItems, req[r].orderItems[req'[r].looked].menuItemId) )
          => /\ Len(req'[r].processed) = Len(req[r].processed) + 1
             /\ req'[r].processed[Len(req'[r].processed)].price =
                  menuItems[req[r].orderItems[req'[r].looked].menuItemId].price
     /\ \A r \in Slots :
          ( /\ req[r].op = "CreateOrder" /\ req[r].pc = "lookup"
            /\ Len(orders') = Len(orders) + 1
            /\ req'[r].result = Len(orders') )
          => orders'[Len(orders')].orderItems = req[r].processed
     /\ \A o \in 1..Len(orders) :
          /\ orders'[o].orderItems = orders[o].orderItems
          /\ orders'[o].subtotal = orders[o].subtotal
          /\ orders'[o].tax = orders[o].tax
          /\ orders'[o].total = orders[o].total]_vars

\* an order of two pizzas at 15.99 and one catalog item at 18.99 was
\* created; the pizza is now at 9.50 and the catalog item at 0, and the
\* lines and the totals of the order are those of its creation
PriceCapturedWitness ==
  /\ Len(orders) = 1
  /\ Len(orders[1].orderItems) = 2
  /\ orders[1].orderItems[1].price = 159900
  /\ orders[1].orderItems[2].price = 189900
  /\ menuItems[1].price = 95000
  /\ MenuItemFound(menuItems, 4) /\ menuItems[4].price = 0
  /\ orders[1].subtotal = 509700 /\ orders[1].tax = 40776 /\ orders[1].total = 550476
  /\ \E r \in Slots : Done(r, "UpdateMenuItem") /\ req[r].code = 200

\* a payment or a refund of the order is in the payment table
PaymentLinked(pays, o) == \E p \in 1..Len(pays) : pays[p].orderId = o

\* C26: no step of RecordPayment, RefundPayment, TransitionStatus or a KDS
\* status route changes the subtotal, the tax or the total of an order that
\* has a payment.
PaidTotalsImmutable ==
  [][\A o \in 1..Len(orders) :
       PaymentLinked(payments, o)
       => /\ orders'[o].subtotal = orders[o].subtotal
          /\ orders'[o].tax = orders[o].tax
          /\ orders'[o].total = orders[o].total]_vars

\* the order was paid in full and confirmed, then marked ready by the
\* kitchen display, and its totals are those of its creation
PaidTotalsWitness ==
  \E r \in Slots : \E k \in Slots :
    /\ Done(r, "RecordPayment") /\ req[r].code = 201 /\ req[r].amount = 172700
    /\ Done(k, "KdsReady") /\ req[k].code = 200
    /\ PaymentLinked(payments, 1)
    /\ orders[1].status = "READY"
    /\ orders[1].subtotal = 159900 /\ orders[1].tax = 12792
    /\ orders[1].total = 172692

\* C27: a client is sent an event only in the step that emits it, and only
\* if it was in the room kitchen before that step: joining or connecting
\* brings no event of the past.
NoReplay ==
  [][\A r \in Slots : \A c \in Clients :
       (c \in req'[r].recipients /\ c \notin req[r].recipients)
       => /\ sockets[c] = "joined"
          /\ req[r].emitted = "" /\ req'[r].emitted # ""]_vars

\* a new-order event was sent to the one display that was in the room, and
\* the display that has joined since has not received it
NoReplayWitness ==
  \E r \in Slots : \E c \in Clients : \E d \in Clients :
    /\ Done(r, "CreateOrder") /\ req[r].emitted = "new-order"
    /\ req[r].recipients = {d}
    /\ c # d /\ sockets[c] = "joined"

\* C28: once every request has finished, the status carried by the last
\* order-status-update event broadcast for an order is the status the order
\* has in the table.
StatusEventsInCommitOrder ==
  (\A r \in Slots : req[r].pc = "done")
  => \A r \in Slots :
       (req[r].emitted = "order-status-update" /\ req[r].last)
       => req[r].status = orders[req[r].orderId].status

\* C29: no step of RecordPayment changes the status of an order that is
\* PREPARING, READY, COMPLETED or CANCELLED.
PaymentKeepsLateStatus ==
  [][\A r \in Slots :
       (req'[r].op = "RecordPayment" /\ req'[r] # req[r])
       => \A id \in 1..Len(orders) :
            orders[id].status \in {"PREPARING", "READY", "COMPLETED", "CANCELLED"}
            => orders'[id].status = orders[id].status]_vars

\* the quantity of an 'add' and the negated quantity of a 'subtract'
RECURSIVE SignedQuantities(_)
SignedQuantities(S) ==
  IF S = {} THEN 0
  ELSE LET r == CHOOSE x \in S : TRUE
           signed == IF req[r].operation = "add" THEN req[r].quantity
                     ELSE 0 - req[r].quantity
       IN signed + SignedQuantities(S \ {r})

\* C30: after concurrent 'add' and 'subtract' requests on one item have
\* finished, currentStock is the initial stock plus the sum of their signed
\* quantities.
NoLostAdjustment ==
  \A id \in DOMAIN inventoryItems :
    (\A r \in Slots : /\ Done(r, "AdjustStock") /\ req[r].code = 200
                      /\ req[r].itemId = id
                      /\ req[r].operation \in {"add", "subtract"})
    => inventoryItems[id].currentStock
         = SeedInventory[id].currentStock + SignedQuantities(Slots)

====
